---- MODULE Spec2Model ----
(***************************************************************************)
(* Trade data fetcher (src/app.py): the table normalizer                   *)
(* _parse_results_table, the two page fetchers fetch_trade_data_import /   *)
(* fetch_trade_data_export with their browser session, and the Streamlit   *)
(* aggregation loop over the HSN codes and the selected flows.             *)
(*                                                                         *)
(* A text is a sequence of one-character strings; "nbsp" stands for the    *)
(* character U+00A0 and "umin" for the Unicode minus U+2212.               *)
(***************************************************************************)
EXTENDS Integers, Sequences, FiniteSets, TLC

VARIABLES
    pc,             \* position of the Streamlit script / of the fetch in progress
    codes,          \* the code list of the request (line 360, 364)
    modes,          \* the selected flows (line 345)
    ci,             \* index in codes of the code being processed (line 376)
    flow,           \* the flow whose fetch is in progress
    step,           \* number of interaction steps the fetch has completed
    driver,         \* the fetch's driver handle, NoDriver for None
    started,        \* the session the fetch's _prep_driver started, NoDriver if none
    live,           \* the browser sessions that are started and not quit
    wait,           \* how the wait for the results table went (lines 198-209)
    failed,         \* the fetch got no driver, or caught an exception (lines 127, 217)
    page,           \* driver.page_source handed to the parser
    result,         \* what the fetch (or the parser) returned: rows and footer
    master,         \* master_imp / master_exp
    totals,         \* totals_imp / totals_exp
    serial,         \* serial_imp / serial_exp
    calls,          \* the fetch calls of the request that have returned, in order
    session_state,  \* st.session_state["df_imp"], ["df_exp"]
    shown,          \* the tables the script run has displayed
    runs,           \* number of script runs that have ended
    completed       \* the fetch requests that got to line 431, in order: flows and tables

vars == <<pc, codes, modes, ci, flow, step, driver, started, live, wait,
          failed, page, result, master, totals, serial, calls, session_state, shown,
          runs, completed>>

----------------------------------------------------------------------------
(* Bounds of the model *)

MaxRows == 2        \* body rows of a parsed document
MaxCells == 12      \* cells of a table row
MaxCodes == 2       \* codes of a request

----------------------------------------------------------------------------
(* Texts *)

NA == <<"N", "/", "A">>

NumFields == 10

\* Python None for the footer; a present footer always has NumFields fields.
None == <<>>

NoDriver == 0

Min(a, b) == IF a < b THEN a ELSE b

IsSpace(c) == c \in {" ", "nbsp"}

RECURSIVE LStrip(_)
LStrip(s) == IF s = <<>> THEN <<>>
             ELSE IF IsSpace(Head(s)) THEN LStrip(Tail(s)) ELSE s

RECURSIVE RStrip(_)
RStrip(s) == IF s = <<>> THEN <<>>
             ELSE IF IsSpace(s[Len(s)]) THEN RStrip(SubSeq(s, 1, Len(s) - 1)) ELSE s

\* td.get_text(strip=True).replace("\xa0", " ")
CellText(raw) ==
    LET t == RStrip(LStrip(raw))
    IN  [i \in 1..Len(t) |-> IF t[i] = "nbsp" THEN " " ELSE t[i]]

\* [CellText(td) for td in tr.find_all("td")]
Cells(tr) == [i \in 1..Len(tr) |-> CellText(tr[i])]

\* while len(x) < 10: x.append("N/A")
PadNA(x) == IF Len(x) < NumFields
            THEN x \o [i \in 1..(NumFields - Len(x)) |-> NA]
            ELSE x

\* x[:10]
First10(x) == SubSeq(x, 1, Min(NumFields, Len(x)))

\* Lines 92-96: the row appended for a tr with cells (cells is not empty).
ProcessedCellsWrong(cells) == First10(PadNA(Tail(cells)))

ProcessedCells(cells) ==
    First10(PadNA(IF Len(cells) > 1 THEN Tail(cells) ELSE cells))

\* Lines 88-96: the rows of the tbody, a tr without td cells is skipped.
RECURSIVE BodyRowsKeepEmpty(_)
BodyRowsKeepEmpty(trs) ==
    IF trs = <<>> THEN <<>>
    ELSE <<ProcessedCells(Cells(Head(trs)))>> \o BodyRowsKeepEmpty(Tail(trs))

RECURSIVE BodyRows(_)
BodyRows(trs) ==
    IF trs = <<>> THEN <<>>
    ELSE LET cells == Cells(Head(trs))
         IN  (IF cells # <<>> THEN <<ProcessedCells(cells)>> ELSE <<>>)
             \o BodyRows(Tail(trs))

\* Lines 101-110: the footer of a table that has a tbody.
FooterOfAnyLength(doc) ==
    IF doc.hasTfoot /\ doc.foot # <<>>
    THEN LET footer_cells == Cells(Head(doc.foot))
         IN  IF footer_cells # <<>>
             THEN First10(PadNA(Tail(footer_cells)))
             ELSE None
    ELSE None

Footer(doc) ==
    IF doc.hasTfoot /\ doc.foot # <<>>
    THEN LET footer_cells == Cells(Head(doc.foot))
         IN  IF footer_cells # <<>> /\ Len(footer_cells) > 1
             THEN First10(PadNA(Tail(footer_cells)))
             ELSE None
    ELSE None

EmptyResult == [rows |-> <<>>, footer |-> None]

\* Lines 55-117.  A document is the part of the page the parser looks at:
\* whether it has <table id="example1">, whether that table has a tbody and the
\* tr elements of it, whether it has a tfoot and the tr elements of it.
_parse_results_table(doc) ==
    IF ~doc.hasTable THEN EmptyResult
    ELSE IF ~doc.hasTbody THEN EmptyResult
    ELSE [rows |-> BodyRows(doc.body), footer |-> Footer(doc)]

----------------------------------------------------------------------------
(* Totals conversion, lines 389-391 and 414-416 *)

Digits == {"0", "1", "2", "3", "4", "5", "6", "7", "8", "9"}

DigitVal(c) ==
    CASE c = "0" -> 0 [] c = "1" -> 1 [] c = "2" -> 2 [] c = "3" -> 3
      [] c = "4" -> 4 [] c = "5" -> 5 [] c = "6" -> 6 [] c = "7" -> 7
      [] c = "8" -> 8 [] c = "9" -> 9

\* any(ch.isdigit() for ch in x)
HasDigit(x) == \E i \in 1..Len(x) : x[i] \in Digits

RECURSIVE Remove(_, _)
Remove(x, c) == IF x = <<>> THEN <<>>
                ELSE (IF Head(x) = c THEN <<>> ELSE <<Head(x)>>) \o Remove(Tail(x), c)

\* x.replace(",", "").replace("−", "-")
Normalize(x) ==
    LET y == Remove(x, ",")
    IN  [i \in 1..Len(y) |-> IF y[i] = "umin" THEN "-" ELSE y[i]]

Count(x, c) == Cardinality({i \in 1..Len(x) : x[i] = c})

\* The text float() parses after stripping white space and the sign.
Unsigned(s) ==
    LET t == RStrip(LStrip(s))
    IN  IF t # <<>> /\ Head(t) \in {"+", "-"} THEN Tail(t) ELSE t

\* float(s) returns a value: an optional sign, then decimal digits with at most
\* one point.  (The texts of the model hold no exponent, underscore, inf or nan.)
FloatParses(s) ==
    LET u == Unsigned(s)
    IN  /\ \A i \in 1..Len(u) : u[i] \in Digits \cup {"."}
        /\ Count(u, ".") <= 1
        /\ \E i \in 1..Len(u) : u[i] \in Digits

RECURSIVE Mantissa(_)
Mantissa(ds) == IF ds = <<>> THEN 0
                ELSE 10 * Mantissa(SubSeq(ds, 1, Len(ds) - 1)) + DigitVal(ds[Len(ds)])

RECURSIVE Reduce(_)
Reduce(v) == IF v.e > 0 /\ v.m % 10 = 0
             THEN Reduce([m |-> v.m \div 10, e |-> v.e - 1])
             ELSE v

\* The number m / 10^e that float(s) returns, for a text that parses.
Float(s) ==
    LET t == RStrip(LStrip(s))
        u == Unsigned(s)
        dot == IF Count(u, ".") = 0 THEN Len(u) + 1
               ELSE CHOOSE i \in 1..Len(u) : u[i] = "."
        m == Mantissa(Remove(u, "."))
    IN  Reduce([m |-> IF Head(t) = "-" THEN 0 - m ELSE m,
                e |-> IF dot > Len(u) THEN 0 ELSE Len(u) - dot])

Zero == [m |-> 0, e |-> 0]

\* The list comprehension raises ValueError when float() rejects a cell.
ConversionRaises(footer) ==
    \E i \in 1..Len(footer) :
        HasDigit(footer[i]) /\ ~FloatParses(Normalize(footer[i]))

Nums(footer) ==
    [i \in 1..Len(footer) |->
        IF HasDigit(footer[i]) THEN Float(Normalize(footer[i])) ELSE Zero]

----------------------------------------------------------------------------
(* Documents *)

RawTexts == << <<"1", "2">>,
               <<" ", "A", "nbsp", "B", "nbsp">>,
               <<>>,
               <<"7", ",", "5">> >>

\* The r-th tr of a section, with k td cells that differ from cell to cell.
RowOf(r, k) == [i \in 1..k |-> RawTexts[((r + i) % Len(RawTexts)) + 1]]

NoTable == [hasTable |-> FALSE, hasTbody |-> FALSE, body |-> <<>>,
            hasTfoot |-> FALSE, foot |-> <<>>]

Bodies == UNION {{[r \in 1..n |-> RowOf(r, ks[r])] : ks \in [1..n -> 0..MaxCells]} :
                   n \in 0..MaxRows}

Feet == {<<>>} \cup {<<RowOf(0, k)>> : k \in 0..MaxCells}

\* The documents the parser is checked on.
ParseDocs ==
    {NoTable}
    \cup {[hasTable |-> TRUE, hasTbody |-> FALSE, body |-> <<>>,
           hasTfoot |-> TRUE, foot |-> f] : f \in Feet}
    \cup {[hasTable |-> TRUE, hasTbody |-> TRUE, body |-> b,
           hasTfoot |-> FALSE, foot |-> <<>>] : b \in Bodies}
    \cup {[hasTable |-> TRUE, hasTbody |-> TRUE, body |-> b,
           hasTfoot |-> TRUE, foot |-> f] : b \in Bodies, f \in Feet}

Table(b, f) == [hasTable |-> TRUE, hasTbody |-> TRUE, body |-> b,
                hasTfoot |-> f # <<>>, foot |-> f]

TotalRow == << <<>>, <<"T", "o", "t", "a", "l">>, <<>>, <<"1", ",", "2", ".", "5", "0">>,
               <<"umin", "3">> >>

BadTotalRow == << <<>>, <<"T", "o", "t", "a", "l">>, <<>>, <<"1", "2", "%">> >>

\* The pages the portal answers a submitted form with.
DocNoRows == Table(<<>>, <<>>)
DocData == Table(<<RowOf(1, 4)>>, <<TotalRow>>)
DocThreeRows == Table(<<RowOf(1, 11), RowOf(2, 3), RowOf(3, 1)>>, <<>>)
DocBadFooter == Table(<<RowOf(1, 4)>>, <<BadTotalRow>>)

LoopDocs == {DocNoRows, DocData, DocThreeRows, DocBadFooter}

\* The help text's example codes (line 342); hsn_input holds a prefix of them.
AllCodes == << <<"7", "0", "0", "8">>,
               <<"4", "4", "1", "1", "1", "2", "0", "0">>,
               <<"4", "4", "1", "1", "1", "3", "0", "0">> >>

Flows == {"import", "export"}

----------------------------------------------------------------------------
(* The state after the script is loaded: no request yet *)

NoTables == [f \in Flows |-> <<>>]

Init ==
    /\ pc = "idle"
    /\ codes = <<>>
    /\ modes = {}
    /\ ci = 1
    /\ flow = "import"
    /\ step = 0
    /\ driver = NoDriver
    /\ started = NoDriver
    /\ live = {}
    /\ wait = "pending"
    /\ failed = FALSE
    /\ page = NoTable
    /\ result = EmptyResult
    /\ master = NoTables
    /\ totals = NoTables
    /\ serial = [f \in Flows |-> 1]
    /\ calls = <<>>
    /\ session_state = NoTables
    /\ shown = NoTables
    /\ runs = 0
    /\ completed = <<>>

fetchVars == <<step, driver, started, live, wait, failed, page, result, calls>>
loopVars == <<master, totals, serial>>
requestVars == <<codes, modes>>
outVars == <<session_state, shown, runs, completed>>

\* Lines 354-374: a button is pressed.  hsn_input holds n codes; test_btn keeps
\* the first one only.  No code or no flow gives a warning and nothing else.
Run(n, m, test_btn) ==
    /\ pc = "idle"
    /\ IF n = 0 \/ m = {}
       THEN /\ pc' = "warned"
            /\ UNCHANGED <<requestVars, loopVars>>
       ELSE /\ pc' = "loop"
            /\ codes' = (IF test_btn THEN SubSeq(AllCodes, 1, 1)
                         ELSE SubSeq(AllCodes, 1, n))
            /\ modes' = m
            /\ master' = NoTables
            /\ totals' = NoTables
            /\ serial' = [f \in Flows |-> 1]
    /\ ci' = 1
    /\ flow' = "import"
    /\ UNCHANGED <<fetchVars, outVars>>

\* finally: driver.quit() (lines 225, 327)
Quit(l, d) == l \ {d}

\* except Exception: ... return [], None (lines 217-223, 319-325)
ExceptResult == EmptyResult

\* The fetch call returns res; its finally clause has run when it had a driver.
Returns(res, fail, l) ==
    /\ pc' = "returned"
    /\ result' = res
    /\ failed' = fail
    /\ live' = l
    /\ step' = 0
    /\ calls' = Append(calls, [code |-> codes[ci], flow |-> flow,
                               rows |-> res.rows])

\* Line 46: a session that is not one of the live ones.
NewSession(l) == IF l = {} THEN 1 ELSE (CHOOSE x \in l : \A y \in l : y <= x) + 1

\* Lines 376-382 / 405-407 with _prep_driver (lines 22-51) and lines 125-128:
\* the loop reaches a flow; a flow that is not selected is passed over; a
\* selected flow's fetch starts by preparing the driver.
\*   "no_session":    the service or Chrome cannot be started       -> None
\*   "script_raises": Chrome is started, execute_script raises      -> None
\*   "ok":            the driver is returned
PrepDriver(outcome) ==
    /\ pc = "loop"
    /\ ci <= Len(codes)
    /\ flow \in modes
    /\ LET sid == NewSession(live)
       IN  CASE outcome = "no_session" ->
                  /\ driver' = NoDriver
                  /\ started' = NoDriver
                  /\ Returns(EmptyResult, TRUE, live)
             [] outcome = "script_raises" ->
                  /\ driver' = NoDriver
                  /\ started' = sid
                  /\ Returns(EmptyResult, TRUE, live \cup {sid})
             [] outcome = "ok" ->
                  /\ driver' = sid
                  /\ started' = sid
                  /\ live' = live \cup {sid}
                  /\ pc' = "interact"
                  /\ failed' = FALSE
                  /\ UNCHANGED <<step, result, calls>>
    /\ wait' = "pending"
    /\ UNCHANGED <<page, ci, flow, requestVars, loopVars, outVars>>

\* The position after a flow of the code at ci: export follows import, the next
\* code follows export (lines 376, 380, 405).
Advance ==
    /\ flow' = (IF flow = "import" THEN "export" ELSE "import")
    /\ ci' = (IF flow = "import" THEN ci ELSE ci + 1)

\* Lines 380, 405: a flow that is not in modes.
SkipFlow ==
    /\ pc = "loop"
    /\ ci <= Len(codes)
    /\ flow \notin modes
    /\ Advance
    /\ UNCHANGED <<pc, fetchVars, requestVars, loopVars, outVars>>

\* driver.get and the five form interactions, in order (lines 135-191, 240-296).
Steps == <<"get", "radio2", "month", "year", "sp", "submit">>

\* The next step succeeds.
InteractOk ==
    /\ pc = "interact"
    /\ step' = step + 1
    /\ pc' = (IF step + 1 = Len(Steps) THEN "wait" ELSE "interact")
    /\ UNCHANGED <<driver, started, live, wait, failed, page, result, calls>>
    /\ UNCHANGED <<ci, flow, requestVars, loopVars, outVars>>

\* The next step raises (page not loaded, element missing, wait timed out).
InteractRaises ==
    /\ pc = "interact"
    /\ Returns(ExceptResult, TRUE, Quit(live, driver))
    /\ UNCHANGED <<driver, started, wait, page>>
    /\ UNCHANGED <<ci, flow, requestVars, loopVars, outVars>>

\* Lines 198-199, 302-303: the results table shows up within the wait.
WaitOk ==
    /\ pc = "wait"
    /\ pc' = "parse"
    /\ wait' = "in_time"
    /\ UNCHANGED <<step, driver, started, live, failed, page, result, calls>>
    /\ UNCHANGED <<ci, flow, requestVars, loopVars, outVars>>

\* Lines 200-202, 304-305: the wait raises; the bare except sleeps.
WaitTimeout ==
    /\ pc = "wait"
    /\ pc' = "recheck"
    /\ wait' = "timed_out"
    /\ UNCHANGED <<step, driver, started, live, failed, page, result, calls>>
    /\ UNCHANGED <<ci, flow, requestVars, loopVars, outVars>>

\* What the second look for the table gives (lines 203-209, 306-312).
RecheckAlwaysParses(found) == "parse"

Recheck(found) == IF found THEN "parse" ELSE "return"

\* Lines 203-209, 306-312: driver.find_elements after the sleep.
RecheckTable(found) ==
    /\ pc = "recheck"
    /\ IF Recheck(found) = "parse"
       THEN /\ pc' = "parse"
            /\ UNCHANGED <<step, live, failed, result, calls>>
       ELSE Returns(EmptyResult, FALSE, Quit(live, driver))
    /\ wait' = (IF found THEN "found_late" ELSE "absent")
    /\ UNCHANGED <<driver, started, page>>
    /\ UNCHANGED <<ci, flow, requestVars, loopVars, outVars>>

\* Line 203, 306: driver.find_elements raises.
RecheckRaises ==
    /\ pc = "recheck"
    /\ Returns(ExceptResult, TRUE, Quit(live, driver))
    /\ UNCHANGED <<driver, started, wait, page>>
    /\ UNCHANGED <<ci, flow, requestVars, loopVars, outVars>>

\* Lines 215, 317: the page source is read and parsed.
ParsePage(doc) ==
    /\ pc = "parse"
    /\ page' = doc
    /\ Returns(_parse_results_table(doc), FALSE, Quit(live, driver))
    /\ UNCHANGED <<driver, started, wait>>
    /\ UNCHANGED <<ci, flow, requestVars, loopVars, outVars>>

\* Lines 215, 317: driver.page_source raises.
PageSourceRaises ==
    /\ pc = "parse"
    /\ Returns(ExceptResult, TRUE, Quit(live, driver))
    /\ UNCHANGED <<driver, started, wait, page>>
    /\ UNCHANGED <<ci, flow, requestVars, loopVars, outVars>>

----------------------------------------------------------------------------
(* The aggregation, lines 384-403 and 409-428 *)

\* for r in rows: master.append([serial] + r[:10]); serial += 1
MasterRows(s, rows) == [i \in 1..Len(rows) |-> <<s + i - 1>> \o First10(rows[i])]

\* master.append([serial, code] + ["N/A"] * 9)
PlaceholderNone(s, code) == <<>>

Placeholder(s, code) == << <<s, code>> \o [i \in 1..9 |-> NA] >>

\* serial after the rows of one fetch
SerialStuck(s, rows) == s + Len(rows)

SerialAfter(s, rows) == IF rows # <<>> THEN s + Len(rows) ELSE s + 1

Aggregate ==
    /\ pc = "returned"
    /\ master' = [master EXCEPT ![flow] =
                    @ \o (IF result.rows # <<>>
                          THEN MasterRows(serial[flow], result.rows)
                          ELSE Placeholder(serial[flow], codes[ci]))]
    /\ serial' = [serial EXCEPT ![flow] = SerialAfter(@, result.rows)]
    /\ IF result.rows # <<>> /\ result.footer # None
       THEN IF ConversionRaises(result.footer)
            THEN /\ pc' = "aborted"
                 /\ UNCHANGED <<totals, ci, flow>>
            ELSE /\ pc' = "loop"
                 /\ totals' = [totals EXCEPT ![flow] = Append(@, Nums(result.footer))]
                 /\ Advance
       ELSE /\ pc' = "loop"
            /\ UNCHANGED totals
            /\ Advance
    /\ UNCHANGED <<fetchVars, requestVars, outVars>>

\* Lines 441-442, 447-448: if master_imp: st.session_state["df_imp"] = ...
SavedAlways(old, new) == new

Saved(old, new) == IF new # <<>> THEN new ELSE old

\* Lines 430-451: the loop is over; the tables are saved and displayed.
Finish ==
    /\ pc = "loop"
    /\ ci > Len(codes)
    /\ pc' = "done"
    /\ session_state' = [f \in Flows |-> Saved(session_state[f], master[f])]
    /\ shown' = master
    /\ completed' = Append(completed, [modes |-> modes, master |-> master])
    /\ UNCHANGED <<fetchVars, ci, flow, requestVars, loopVars, runs>>

Next ==
    \/ \E n \in 0..MaxCodes, m \in SUBSET Flows, test_btn \in BOOLEAN : Run(n, m, test_btn)
    \/ \E outcome \in {"no_session", "script_raises", "ok"} : PrepDriver(outcome)
    \/ SkipFlow
    \/ InteractOk
    \/ InteractRaises
    \/ WaitOk
    \/ WaitTimeout
    \/ \E found \in BOOLEAN : RecheckTable(found)
    \/ RecheckRaises
    \/ \E doc \in LoopDocs : ParsePage(doc)
    \/ PageSourceRaises
    \/ Aggregate
    \/ Finish

Spec == Init /\ [][Next]_vars

----------------------------------------------------------------------------
(* Several script runs in one browser session: st.session_state stays *)

MaxRuns == 2        \* script runs that follow the first one

EndStates == {"done", "aborted", "warned", "previous"}

\* The user touches a widget or a button: Streamlit runs the script again from
\* the top.  The locals of the run that ended are gone, st.session_state and
\* the browser sessions that were never quit stay.
Rerun ==
    /\ pc \in EndStates
    /\ runs < MaxRuns
    /\ runs' = runs + 1
    /\ pc' = "idle"
    /\ codes' = <<>>
    /\ modes' = {}
    /\ ci' = 1
    /\ flow' = "import"
    /\ step' = 0
    /\ driver' = NoDriver
    /\ started' = NoDriver
    /\ wait' = "pending"
    /\ failed' = FALSE
    /\ page' = NoTable
    /\ result' = EmptyResult
    /\ master' = NoTables
    /\ totals' = NoTables
    /\ serial' = [f \in Flows |-> 1]
    /\ calls' = <<>>
    /\ shown' = NoTables
    /\ UNCHANGED <<live, session_state, completed>>

\* Lines 453-463: a run without a button shows the tables of st.session_state
\* as previously fetched data.
ShowPrevious ==
    /\ pc = "idle"
    /\ pc' = "previous"
    /\ shown' = session_state
    /\ UNCHANGED <<fetchVars, ci, flow, requestVars, loopVars, session_state,
                   runs, completed>>

\* The pages the portal answers with in these runs.
SessionDocs == {DocNoRows, DocData, DocBadFooter}

\* The requests of these runs hold at most one code.
NextSession ==
    \/ \E n \in 0..1, m \in SUBSET Flows, test_btn \in BOOLEAN : Run(n, m, test_btn)
    \/ \E outcome \in {"no_session", "script_raises", "ok"} : PrepDriver(outcome)
    \/ SkipFlow
    \/ InteractOk
    \/ InteractRaises
    \/ WaitOk
    \/ WaitTimeout
    \/ \E found \in BOOLEAN : RecheckTable(found)
    \/ RecheckRaises
    \/ \E doc \in SessionDocs : ParsePage(doc)
    \/ PageSourceRaises
    \/ Aggregate
    \/ Finish
    \/ Rerun
    \/ ShowPrevious

SpecSession == Init /\ [][NextSession]_vars

----------------------------------------------------------------------------
(* The parser alone, on every document of ParseDocs *)

InitParse ==
    /\ pc = "parse_input"
    /\ page \in ParseDocs
    /\ codes = <<>>
    /\ modes = {}
    /\ ci = 1
    /\ flow = "import"
    /\ step = 0
    /\ driver = NoDriver
    /\ started = NoDriver
    /\ live = {}
    /\ wait = "pending"
    /\ failed = FALSE
    /\ result = EmptyResult
    /\ master = NoTables
    /\ totals = NoTables
    /\ serial = [f \in Flows |-> 1]
    /\ calls = <<>>
    /\ session_state = NoTables
    /\ shown = NoTables
    /\ runs = 0
    /\ completed = <<>>

ParseStep ==
    /\ pc = "parse_input"
    /\ pc' = "parse_output"
    /\ result' = _parse_results_table(page)
    /\ UNCHANGED <<codes, modes, ci, flow, step, driver, started, live, wait,
                   failed, page, master, totals, serial, calls, session_state, shown,
                   runs, completed>>

NextParse == ParseStep

SpecParse == InitParse /\ [][NextParse]_vars

----------------------------------------------------------------------------
(* Properties of the fetch, checked under Spec *)

FetchOver == pc \in {"returned", "fetch_raised"}

\* C1 (as claimed): when a fetch call has returned, the browser session that the
\* call started has been quit, whichever way the call ended.
C1_SessionQuitOnEveryExit ==
    pc = "returned" => started \notin live

\* C2 (as claimed): a fetch in which the driver could not be created, a step
\* raised or a bounded wait timed out (the wait for the results table too)
\* returns no rows and no footer, and does not raise.
C2_EveryFailureGivesEmpty ==
    (FetchOver /\ (failed \/ wait \in {"timed_out", "found_late", "absent"}))
        => (pc = "returned" /\ result = EmptyResult)

\* C2 (amended): a fetch in which the driver could not be created or a step
\* raised, or whose table is still missing at the second look after the wait
\* timed out, returns no rows and no footer and does not raise; a fetch whose
\* table is found at the second look returns what the parser makes of the page.
C2_FailureGivesEmpty ==
    /\ (FetchOver /\ (failed \/ wait = "absent"))
           => (pc = "returned" /\ result = EmptyResult)
    /\ (FetchOver /\ ~failed /\ wait = "found_late")
           => (pc = "returned" /\ result = _parse_results_table(page))

C2_Witness ==
    /\ pc = "returned"
    /\ wait = "absent"
    /\ ~failed
    /\ result = EmptyResult
    /\ driver # NoDriver

----------------------------------------------------------------------------
(* Properties of the parser, checked under SpecParse *)

Parsed == pc = "parse_output" /\ page.hasTable

\* The tr elements of the tbody that have td cells, in document order.
RowsWithCells == SelectSeq(page.body, LAMBDA tr : tr # <<>>)

\* Field i of c2..ck padded with N/A.
DropFirstField(tr, i) == IF i + 1 <= Len(tr) THEN CellText(tr[i + 1]) ELSE NA

\* Field i of the sole cell followed by N/A.
KeepSoleField(tr, i) == IF i = 1 THEN CellText(tr[1]) ELSE NA

\* C3 (as claimed): a table with N body rows gives exactly N rows of 10 fields.
C3_OneRowPerBodyRow ==
    Parsed => /\ Len(result.rows) = Len(page.body)
              /\ \A j \in 1..Len(result.rows) : Len(result.rows[j]) = NumFields

\* C3 (amended): the parser returns one row of exactly 10 fields for each tr of
\* the tbody that has at least one td cell, in document order; a tr without td
\* cells gives no row.
C3_OneRowPerRowWithCells ==
    Parsed => /\ Len(result.rows) = Len(RowsWithCells)
              /\ \A j \in 1..Len(result.rows) :
                    /\ Len(result.rows[j]) = NumFields
                    /\ LET tr == RowsWithCells[j]
                       IN  result.rows[j][1] = (IF Len(tr) = 1 THEN KeepSoleField(tr, 1)
                                                ELSE DropFirstField(tr, 1))

C3_Witness ==
    /\ Parsed
    /\ Len(page.body) = 2
    /\ page.body[1] = <<>>
    /\ Len(page.body[2]) = 3
    /\ Len(result.rows) = 1

\* C4 (as claimed): the row of a tr with cells c1..ck, k >= 1, is c2..ck padded
\* with N/A to 10 fields, cut to 10 fields; the first cell is always dropped.
C4_FirstCellAlwaysDropped ==
    Parsed /\ page.hasTbody =>
        \A j \in 1..Len(RowsWithCells) :
            /\ j <= Len(result.rows)
            /\ Len(result.rows[j]) = NumFields
            /\ \A i \in 1..NumFields :
                  result.rows[j][i] = DropFirstField(RowsWithCells[j], i)

\* C4 (amended): the row of a tr with cells c1..ck is c2..ck padded with N/A to
\* 10 fields and cut to 10 fields when k >= 2, and c1 followed by nine N/A
\* when k = 1.
C4_FirstCellDroppedUnlessSole ==
    Parsed /\ page.hasTbody =>
        \A j \in 1..Len(RowsWithCells) :
            /\ j <= Len(result.rows)
            /\ Len(result.rows[j]) = NumFields
            /\ \A i \in 1..NumFields :
                  result.rows[j][i] =
                      IF Len(RowsWithCells[j]) = 1
                      THEN KeepSoleField(RowsWithCells[j], i)
                      ELSE DropFirstField(RowsWithCells[j], i)

C4_Witness ==
    /\ Parsed
    /\ Len(page.body) = 2
    /\ Len(page.body[1]) = 12
    /\ Len(page.body[2]) = 1
    /\ Len(result.rows) = 2
    /\ result.rows[1][NumFields] = CellText(page.body[1][NumFields + 1])
    /\ result.rows[2][1] = CellText(page.body[2][1])

HasFooterRow == page.hasTfoot /\ page.foot # <<>>

\* C5 (as claimed): the footer is present, with 10 fields made as for a body
\* row, whenever the table has a footer row, and absent only when it has none.
C5_FooterWheneverFooterRow ==
    Parsed =>
        /\ HasFooterRow =>
              /\ result.footer # None
              /\ Len(result.footer) = NumFields
              /\ \A i \in 1..NumFields :
                    result.footer[i] = DropFirstField(Head(page.foot), i)
        /\ result.footer = None => ~HasFooterRow

\* C5 (amended): the footer is present exactly when the table has a tbody and
\* the first tr of its tfoot has at least two td cells; it then has 10 fields,
\* the cells after the first padded with N/A and cut to 10.
C5_FooterWhenTbodyAndTwoCells ==
    Parsed =>
        /\ result.footer # None
              <=> (page.hasTbody /\ HasFooterRow /\ Len(Head(page.foot)) >= 2)
        /\ result.footer # None =>
              /\ Len(result.footer) = NumFields
              /\ \A i \in 1..NumFields :
                    result.footer[i] = DropFirstField(Head(page.foot), i)

C5_Witness ==
    /\ Parsed
    /\ page.hasTbody
    /\ page.body = <<>>
    /\ HasFooterRow
    /\ Len(Head(page.foot)) = 3
    /\ result.footer # None
    /\ result.footer[2] = CellText(page.foot[1][3])
    /\ result.footer[3] = NA

----------------------------------------------------------------------------
(* Properties of the aggregation, checked under Spec *)

\* C6 (as claimed): no footer makes the totals conversion raise and abort the
\* aggregation loop.
C6_ConversionNeverRaises == pc # "aborted"

ALL == <<"A", "L", "L">>

\* The displayed table of flow f has a row labelled ALL.
HasAggregateRow(f) ==
    \E j \in 1..Len(shown[f]) : \E i \in 2..Len(shown[f][j]) : shown[f][j][i] = ALL

\* C7 (as claimed): when all codes are processed, the output of a selected flow
\* has an aggregate row labelled ALL exactly when totals were collected for it.
C7_AggregateRowIffTotals ==
    pc = "done" => \A f \in modes : HasAggregateRow(f) <=> totals[f] # <<>>

Aggregated ==
    IF pc = "returned" THEN SubSeq(calls, 1, Len(calls) - 1) ELSE calls

CallsOf(f) == SelectSeq(Aggregated, LAMBDA c : c.flow = f)

RECURSIVE RowCount(_)
RowCount(cs) ==
    IF cs = <<>> THEN 0
    ELSE (IF Len(Head(cs).rows) > 0 THEN Len(Head(cs).rows) ELSE 1) + RowCount(Tail(cs))

\* C9: the master sequence of a flow is, call after call in code order, the n
\* rows of a fetch that gave n > 0 rows, each its serial followed by the 10
\* fields, and one placeholder [serial, code, N/A x 9] for a fetch that gave none.
C9_RowsOrPlaceholderPerCode ==
    \A f \in Flows :
        LET cs == CallsOf(f)
        IN  /\ Len(master[f]) = RowCount(cs)
            /\ \A k \in 1..Len(cs) :
                  LET off == RowCount(SubSeq(cs, 1, k - 1))
                      rows == cs[k].rows
                  IN  IF rows # <<>>
                      THEN \A i \in 1..Len(rows) :
                              master[f][off + i] = <<off + i>> \o rows[i]
                      ELSE master[f][off + 1] =
                              <<off + 1, cs[k].code>> \o [i \in 1..9 |-> NA]

C9_Witness ==
    /\ pc = "done"
    /\ modes = {"import"}
    /\ Len(calls) = 2
    /\ Len(calls[1].rows) = 3
    /\ calls[2].rows = <<>>
    /\ Len(master["import"]) = 4
    /\ master["import"][4] = <<4, AllCodes[2]>> \o [i \in 1..9 |-> NA]

\* The (code, flow) pairs of a request: code by code, import before export.
RECURSIVE Pairs(_, _)
Pairs(cs, ms) ==
    IF cs = <<>> THEN <<>>
    ELSE (IF "import" \in ms THEN << <<Head(cs), "import">> >> ELSE <<>>)
         \o (IF "export" \in ms THEN << <<Head(cs), "export">> >> ELSE <<>>)
         \o Pairs(Tail(cs), ms)

Fetched == [k \in 1..Len(calls) |-> <<calls[k].code, calls[k].flow>>]

\* C10 (as claimed): at most one browser session is live at any time, the
\* fetches are those of the (code, flow) pairs in order, and when the request
\* is over, whatever the fetches gave, there has been one fetch for every pair.
C10_SerializedAndComplete ==
    /\ Cardinality(live) <= 1
    /\ Len(Fetched) <= Len(Pairs(codes, modes))
    /\ Fetched = SubSeq(Pairs(codes, modes), 1, Len(Fetched))
    /\ pc \in {"done", "aborted"} => Fetched = Pairs(codes, modes)

----------------------------------------------------------------------------
(* Properties of st.session_state over several runs, checked under SpecSession *)

LastCompleted == completed[Len(completed)]

LatestOf(f) ==
    LET sel == {k \in 1..Len(completed) : f \in completed[k].modes}
    IN  IF sel = {} THEN <<>>
        ELSE completed[CHOOSE k \in sel : \A j \in sel : j <= k].master[f]

====
